---------------------------- MODULE Spec2Model ----------------------------
(***************************************************************************)
(* The DNS wire codec of package netx (dns.go, dnsunmarshal.go).           *)
(*                                                                         *)
(* A byte is a number in 0..255, a byte slice or a Go string a sequence of *)
(* bytes.  A uint16 is kept modulo 65536.  A uint32 is kept as its two     *)
(* 16-bit halves [hi, lo], because the integers of the model checker are   *)
(* 32-bit signed.  A call that returns (value, error) or panics yields a   *)
(* record with out in {"ok", "error", "panic"}.                            *)
(***************************************************************************)
EXTENDS Integers, Sequences, FiniteSets, TLC

VARIABLES
    pc,     \* "idle", "encoded", "received", "sent" or "decoded"
    obj,    \* the value handed to the encoder, or the description of raw input
    enc,    \* what the ToByte call returned
    wire,   \* the bytes in the bytes.Buffer handed to the decoder
    cut,    \* TRUE when wire is a strict prefix of what the encoder returned
    dec     \* what the decoder returned

vars == <<pc, obj, enc, wire, cut, dec>>

---------------------------------------------------------------------------
(* Bounds of the inputs.                                                   *)

MaxNameLen == 3
MaxSection == 2

---------------------------------------------------------------------------
(* Program constants.                                                      *)

DNSTypeA == 1
DNSTypeNS == 2
DNSTypeCName == 5
DNSTypeAAAA == 28
DNSClassIn == 1
Dot == 46

ErrClassNotSupport == <<"this class is not supported">>

\* errors.WithMessage(err, msg): the message is put in front of the cause.
WithMessage(err, msg) == <<msg>> \o err

---------------------------------------------------------------------------
(* Fixed-width integers and encoding/binary.                               *)

Min(a, b) == IF a < b THEN a ELSE b

\* x << n and x >> n on a uint16.
Shl16(x, n) == (x * (2 ^ n)) % 65536
Shr16(x, n) == x \div (2 ^ n)

\* Faulty variant of PutUint16: little-endian.
PutUint16LE(x) == <<x % 256, x \div 256>>

\* binary.Write(&buffer, binary.BigEndian, x) for a uint16.
PutUint16(x) == <<x \div 256, x % 256>>

\* binary.Write(&buffer, binary.BigEndian, x) for a uint32.
PutUint32(t) == PutUint16(t.hi) \o PutUint16(t.lo)

\* Faulty variant of Uint16: little-endian.
Uint16LE(b) == b[2] * 256 + b[1]

\* binary.BigEndian.Uint16(b) on a slice of at least 2 bytes.
Uint16(b) == b[1] * 256 + b[2]

\* binary.BigEndian.Uint32(b) on a slice of at least 4 bytes.
Uint32(b) == [hi |-> Uint16(SubSeq(b, 1, 2)), lo |-> Uint16(SubSeq(b, 3, 4))]

\* buffer.Next(n): the next n bytes, or all that is left when fewer remain.
BufferNext(buf, n) ==
    [bytes |-> SubSeq(buf, 1, Min(n, Len(buf))),
     buf   |-> SubSeq(buf, Min(n, Len(buf)) + 1, Len(buf))]

\* Outcomes of a decoder.
Ok(v, rest) == [out |-> "ok", err |-> <<>>, val |-> v, rest |-> rest]
Fail(e) == [out |-> "error", err |-> e, val |-> <<>>, rest |-> <<>>]
Panic == [out |-> "panic", err |-> <<"index out of range">>, val |-> <<>>, rest |-> <<>>]

\* Outcomes of an encoder: the bytes returned, nil with an error.
Bytes(b) == [out |-> "ok", err |-> <<>>, bytes |-> b]
NoBytes(e) == [out |-> "error", err |-> e, bytes |-> <<>>]
EncPanic == [out |-> "panic", err |-> <<"index out of range">>, bytes |-> <<>>]

---------------------------------------------------------------------------
(* strings.Split, strings.Join, net.ParseIP, net.IP.String.                *)

RECURSIVE Split(_)
\* strings.Split(s, "."): the part before the first '.', then the split of
\* what follows it; a string without '.' ("" too) is one segment.
Split(s) ==
    IF \A i \in DOMAIN s : s[i] # Dot THEN <<s>>
    ELSE LET i == CHOOSE k \in DOMAIN s : s[k] = Dot /\ \A j \in 1..(k - 1) : s[j] # Dot
         IN  <<SubSeq(s, 1, i - 1)>> \o Split(SubSeq(s, i + 1, Len(s)))

RECURSIVE Join(_)
\* strings.Join(segments, "."): nil gives "".
Join(segments) ==
    IF segments = <<>> THEN <<>>
    ELSE IF Len(segments) = 1 THEN Head(segments)
    ELSE Head(segments) \o <<Dot>> \o Join(Tail(segments))

RECURSIVE ParseIPv4Fields(_, _, _, _, _)
ParseIPv4Fields(s, i, val, digLen, fields) ==
    IF i > Len(s)
    THEN IF Len(fields) < 3 THEN <<>> ELSE Append(fields, val)
    ELSE IF s[i] >= 48 /\ s[i] <= 57
    THEN IF digLen = 1 /\ val = 0 THEN <<>>
         ELSE IF val * 10 + s[i] - 48 > 255 THEN <<>>
         ELSE ParseIPv4Fields(s, i + 1, val * 10 + s[i] - 48, digLen + 1, fields)
    ELSE IF s[i] = Dot
    THEN IF i = 1 \/ i = Len(s) \/ s[i - 1] = Dot THEN <<>>
         ELSE IF Len(fields) = 3 THEN <<>>
         ELSE ParseIPv4Fields(s, i + 1, 0, 0, Append(fields, val))
    ELSE <<>>

\* net.ParseIP(s).To4() for a string without ':' or '%': the 4 address bytes,
\* or nil (the empty slice) when s is no dotted quad.
ParseIPTo4(s) ==
    IF \E i \in DOMAIN s : s[i] = Dot THEN ParseIPv4Fields(s, 1, 0, 0, <<>>) ELSE <<>>

RECURSIVE Itoa(_)
Itoa(n) == IF n < 10 THEN <<48 + n>> ELSE Itoa(n \div 10) \o <<48 + (n % 10)>>

\* net.IPv4(a, b, c, d).String()
IPv4String(a, b, c, d) ==
    Itoa(a) \o <<Dot>> \o Itoa(b) \o <<Dot>> \o Itoa(c) \o <<Dot>> \o Itoa(d)

---------------------------------------------------------------------------
(* dns.go: the encoders.                                                   *)

\* Faulty variant of ToBit: the AA and TC shifts exchanged.
ToBitSwapped(f) ==
    (Shl16(f.QR, 15) + Shl16(f.OpCode, 11) + Shl16(f.AA, 9) + Shl16(f.TC, 10)
       + Shl16(f.RD, 8) + Shl16(f.RA, 7) + f.RCode) % 65536

\* DNSFlags.ToBit: Z is not part of the sum.
ToBit(f) ==
    (Shl16(f.QR, 15) + Shl16(f.OpCode, 11) + Shl16(f.AA, 10) + Shl16(f.TC, 9)
       + Shl16(f.RD, 8) + Shl16(f.RA, 7) + f.RCode) % 65536

\* DNSHeader.ToByte: binary.Write into a bytes.Buffer does not fail.
HeaderToByte(h) ==
    Bytes(PutUint16(h.TxID) \o PutUint16(ToBit(h.Flags)) \o PutUint16(h.Questions)
          \o PutUint16(h.AnswerRRs) \o PutUint16(h.AuthorityRRs)
          \o PutUint16(h.AdditionalRRs))

RECURSIVE SegmentsToByte(_)
\* The loop over the segments: byte(len(seg)), then the segment's bytes.
SegmentsToByte(segments) ==
    IF segments = <<>> THEN <<>>
    ELSE <<Len(Head(segments)) % 256>> \o Head(segments) \o SegmentsToByte(Tail(segments))

\* The name as written by DNSQuestion.ToByte and by DNSResourceRecode.ToByte.
NameToByte(name) == SegmentsToByte(Split(name)) \o <<0>>

\* DNSQuestion.ToByte
QuestionToByte(q) ==
    Bytes(NameToByte(q.QuestionName) \o PutUint16(q.QuestionType)
          \o PutUint16(q.QuestionClass))

\* Faulty variant of RDataSwitch: the default case writes nothing and goes on.
RDataSwitchSkip(r, buffer) ==
    IF r.Class = DNSClassIn THEN Bytes(buffer \o ParseIPTo4(r.RData)) ELSE Bytes(buffer)

\* The class switch of DNSResourceRecode.ToByte: binary.Write of a nil or
\* empty []byte writes nothing and returns no error.
RDataSwitch(r, buffer) ==
    IF r.Class = DNSClassIn
    THEN Bytes(buffer \o ParseIPTo4(r.RData))
    ELSE NoBytes(ErrClassNotSupport)

\* (0x01<<15)|(0x01<<14)|r.NamePos
PointerWord(namePos) == 49152 + (namePos % 16384)

\* DNSResourceRecode.ToByte
ResourceRecodeToByte(r) ==
    RDataSwitch(r,
        (IF r.NamePos > 0 THEN PutUint16(PointerWord(r.NamePos)) ELSE <<>>)
        \o (IF r.NamePos <= 0 THEN NameToByte(r.Name) ELSE <<>>)
        \o PutUint16(r.RRType) \o PutUint16(r.Class) \o PutUint32(r.TTL)
        \o PutUint16(r.RDLength))

RECURSIVE QuestionsToByte(_, _, _)
\* for i := uint16(0); i < d.Header.Questions; i++: d.Questions[i] panics
\* when the header counts more questions than the slice holds.
QuestionsToByte(m, i, buffer) ==
    IF i >= m.Header.Questions THEN Bytes(buffer)
    ELSE IF i >= Len(m.Questions) THEN EncPanic
    ELSE QuestionsToByte(m, i + 1, buffer \o QuestionToByte(m.Questions[i + 1]).bytes)

RECURSIVE RecodesToByte(_, _)
\* for _, recode := range d.ResourceRecodes
RecodesToByte(recodes, buffer) ==
    IF recodes = <<>> THEN Bytes(buffer)
    ELSE LET toByte == ResourceRecodeToByte(Head(recodes))
         IN  IF toByte.out # "ok"
             THEN NoBytes(WithMessage(toByte.err, "write resource error"))
             ELSE RecodesToByte(Tail(recodes), buffer \o toByte.bytes)

\* DNSMessage.ToByte
MessageToByte(m) ==
    LET qs == QuestionsToByte(m, 0, HeaderToByte(m.Header).bytes)
    IN  IF qs.out # "ok" THEN qs ELSE RecodesToByte(m.ResourceRecodes, qs.bytes)

\* The message LookUp builds for host.
LookUpMessage(host) ==
    [Header |-> [TxID |-> 1,
                 Flags |-> [QR |-> 0, OpCode |-> 0, AA |-> 0, TC |-> 0, RD |-> 1,
                            RA |-> 0, Z |-> 0, RCode |-> 0],
                 Questions |-> 1, AnswerRRs |-> 0, AuthorityRRs |-> 0,
                 AdditionalRRs |-> 0],
     Questions |-> <<[QuestionName |-> host, QuestionType |-> DNSTypeA,
                      QuestionClass |-> DNSClassIn]>>,
     ResourceRecodes |-> <<>>]

---------------------------------------------------------------------------
(* dnsunmarshal.go: the decoders.                                          *)

\* The flag-word extraction of NewDNSHeader.
UnpackFlags(flag) ==
    [QR     |-> Shr16(flag, 15),
     OpCode |-> Shr16(flag, 11) % 16,
     AA     |-> Shr16(flag, 10) % 2,
     TC     |-> Shr16(flag, 9) % 2,
     RD     |-> Shr16(flag, 8) % 2,
     RA     |-> Shr16(flag, 7) % 2,
     Z      |-> Shr16(flag, 4) % 8,
     RCode  |-> flag % 16]

\* NewDNSHeader: six reads of two bytes; Uint16 of a shorter slice panics.
NewDNSHeader(buf) ==
    LET r1 == BufferNext(buf, 2)
        r2 == BufferNext(r1.buf, 2)
        r3 == BufferNext(r2.buf, 2)
        r4 == BufferNext(r3.buf, 2)
        r5 == BufferNext(r4.buf, 2)
        r6 == BufferNext(r5.buf, 2)
    IN  IF \E r \in {r1, r2, r3, r4, r5, r6} : Len(r.bytes) < 2
        THEN Panic
        ELSE Ok([TxID |-> Uint16(r1.bytes),
                 Flags |-> UnpackFlags(Uint16(r2.bytes)),
                 Questions |-> Uint16(r3.bytes),
                 AnswerRRs |-> Uint16(r4.bytes),
                 AuthorityRRs |-> Uint16(r5.bytes),
                 AdditionalRRs |-> Uint16(r6.bytes)], r6.buf)

RECURSIVE ReadSegments(_, _, _)
\* for length > 0: binary.Read of length bytes, then of the next length byte;
\* a short read is io.EOF or io.ErrUnexpectedEOF.
ReadSegments(buf, length, segments) ==
    IF length = 0 THEN Ok(segments, buf)
    ELSE IF Len(buf) < length
    THEN Fail(WithMessage(<<IF buf = <<>> THEN "EOF" ELSE "unexpected EOF">>, "read seg"))
    ELSE IF Len(buf) = length
    THEN Fail(WithMessage(<<"EOF">>, "read length"))
    ELSE ReadSegments(SubSeq(buf, length + 2, Len(buf)), buf[length + 1],
                      Append(segments, SubSeq(buf, 1, length)))

\* NewDNSQuestion
NewDNSQuestion(buf) ==
    IF buf = <<>> THEN Fail(WithMessage(<<"EOF">>, "read length"))
    ELSE LET segs == ReadSegments(Tail(buf), Head(buf), <<>>)
             t == BufferNext(segs.rest, 2)
             c == BufferNext(t.buf, 2)
         IN  IF segs.out # "ok" THEN segs
             ELSE IF Len(t.bytes) < 2 \/ Len(c.bytes) < 2 THEN Panic
             ELSE Ok([QuestionName |-> Join(segs.val),
                      QuestionType |-> Uint16(t.bytes),
                      QuestionClass |-> Uint16(c.bytes)], c.buf)

\* Faulty variant of NamePosOf: the tag bits are not cleared.
NamePosUnmasked(word) == word

\* (binary.BigEndian.Uint16(buffer.BufferNext(2)) << 2) >> 2
NamePosOf(word) == Shr16(Shl16(word, 2), 2)

\* NewDNSResourceRecode
NewDNSResourceRecode(buf) ==
    IF buf = <<>> THEN Panic
    ELSE LET tag == Shr16(Head(buf), 6)
             p == IF tag = 3 THEN BufferNext(buf, 2) ELSE [bytes |-> <<0, 0>>, buf |-> buf]
             t == BufferNext(p.buf, 2)
             c == BufferNext(t.buf, 2)
             l == BufferNext(c.buf, 4)
             n == BufferNext(l.buf, 2)
         IN  IF Len(p.bytes) < 2 \/ Len(t.bytes) < 2 \/ Len(c.bytes) < 2
                \/ Len(l.bytes) < 4 \/ Len(n.bytes) < 2
             THEN Panic
             ELSE LET r == [Name |-> <<>>,
                            NamePos |-> IF tag = 3 THEN NamePosOf(Uint16(p.bytes)) ELSE 0,
                            RRType |-> Uint16(t.bytes),
                            Class |-> Uint16(c.bytes),
                            TTL |-> Uint32(l.bytes),
                            RDLength |-> Uint16(n.bytes),
                            RData |-> <<>>]
                      d == BufferNext(n.buf, IF r.RRType = 1 /\ r.RDLength = 4
                                       THEN 4 ELSE r.RDLength)
                  IN  IF r.RRType = 1 /\ r.RDLength = 4
                      THEN IF Len(d.bytes) < 4 THEN Panic
                           ELSE Ok([r EXCEPT !.RData = IPv4String(d.bytes[1], d.bytes[2],
                                                                   d.bytes[3], d.bytes[4])],
                                   d.buf)
                      ELSE Ok(r, d.buf)

ZeroHeader ==
    [TxID |-> 0,
     Flags |-> [QR |-> 0, OpCode |-> 0, AA |-> 0, TC |-> 0, RD |-> 0, RA |-> 0,
                Z |-> 0, RCode |-> 0],
     Questions |-> 0, AnswerRRs |-> 0, AuthorityRRs |-> 0, AdditionalRRs |-> 0]

\* NewDNSMessage: one question from the start of the buffer, then one
\* resource record when bytes remain.
NewDNSMessage(buf) ==
    LET question == NewDNSQuestion(buf)
        recode == NewDNSResourceRecode(question.rest)
    IN  IF question.out # "ok" THEN question
        ELSE IF Len(question.rest) > 0
        THEN IF recode.out # "ok" THEN recode
             ELSE Ok([Header |-> ZeroHeader, Questions |-> <<question.val>>,
                      ResourceRecodes |-> <<recode.val>>], recode.rest)
        ELSE Ok([Header |-> ZeroHeader, Questions |-> <<question.val>>,
                 ResourceRecodes |-> <<>>], question.rest)

---------------------------------------------------------------------------
(* The inputs the calls are made with.                                     *)

Repeat(c, n) == [i \in 1..n |-> c]

SeqsUpTo(S, n) == UNION {[1..k -> S] : k \in 0..n}

\* "example.com"
ExampleCom == <<101, 120, 97, 109, 112, 108, 101, Dot, 99, 111, 109>>

\* 'a', the bytes 0x00 and 0xC0, and '.'
Alphabet == {97, 0, 192, Dot}

\* Every string over the alphabet up to MaxNameLen bytes: empty names, empty
\* labels and trailing dots included.
ShortNames == SeqsUpTo(Alphabet, MaxNameLen)

\* A first label of 63, 64, 192 and 256 bytes.
LongLabelLens == {63, 64, 192, 256}
LongNames == {Repeat(97, n) \o <<Dot, 98>> : n \in LongLabelLens}

Names == ShortNames \cup LongNames \cup {ExampleCom}

Questions ==
    [QuestionName : Names,
     QuestionType : {DNSTypeA, DNSTypeAAAA, 258, 65535},
     QuestionClass : {DNSClassIn, 0, 65280}]

LookUpFlags == LookUpMessage(<<>>).Header.Flags

FlagSets ==
    {LookUpFlags,
     [QR |-> 1, OpCode |-> 0, AA |-> 0, TC |-> 0, RD |-> 1, RA |-> 1, Z |-> 0, RCode |-> 3],
     [QR |-> 1, OpCode |-> 15, AA |-> 1, TC |-> 1, RD |-> 1, RA |-> 1, Z |-> 7, RCode |-> 15]}

Headers ==
    [TxID : {0, 1, 258, 65535}, Flags : FlagSets, Questions : {0, 1},
     AnswerRRs : {0, 513}, AuthorityRRs : {0}, AdditionalRRs : {0, 65535}]

\* "1.2.3.4", "255.255.255.0", "", "a.b", "1.2.3.256"
RDatas ==
    {<<49, Dot, 50, Dot, 51, Dot, 52>>,
     <<50, 53, 53, Dot, 50, 53, 53, Dot, 50, 53, 53, Dot, 48>>,
     <<>>,
     <<97, Dot, 98>>,
     <<49, Dot, 50, Dot, 51, Dot, 50, 53, 54>>}

RecodeNames ==
    {<<97>>, <<97, Dot, 98>>, <<>>, ExampleCom, Repeat(97, 64) \o <<Dot, 98>>}

Recodes ==
    [Name : RecodeNames, NamePos : {0, 12, 16383},
     RRType : {DNSTypeA, DNSTypeCName}, Class : {DNSClassIn, 3},
     TTL : {[hi |-> 0, lo |-> 300], [hi |-> 65535, lo |-> 65535]},
     RDLength : {4, 0}, RData : RDatas]

MsgQuestions ==
    {[QuestionName |-> ExampleCom, QuestionType |-> DNSTypeA, QuestionClass |-> DNSClassIn],
     [QuestionName |-> <<97>>, QuestionType |-> DNSTypeAAAA, QuestionClass |-> 3]}

MsgRecodes ==
    {[Name |-> <<>>, NamePos |-> 12, RRType |-> DNSTypeA, Class |-> DNSClassIn,
      TTL |-> [hi |-> 0, lo |-> 300], RDLength |-> 4,
      RData |-> <<49, Dot, 50, Dot, 51, Dot, 52>>],
     [Name |-> <<97>>, NamePos |-> 0, RRType |-> DNSTypeA, Class |-> 3,
      TTL |-> [hi |-> 0, lo |-> 300], RDLength |-> 4,
      RData |-> <<49, Dot, 50, Dot, 51, Dot, 52>>],
     [Name |-> <<97>>, NamePos |-> 0, RRType |-> DNSTypeA, Class |-> DNSClassIn,
      TTL |-> [hi |-> 0, lo |-> 300], RDLength |-> 4, RData |-> <<>>]}

Messages ==
    [Header : [TxID : {1, 770}, Flags : {LookUpFlags}, Questions : 0..MaxSection,
               AnswerRRs : {0}, AuthorityRRs : {0}, AdditionalRRs : {0}],
     Questions : SeqsUpTo(MsgQuestions, MaxSection),
     ResourceRecodes : SeqsUpTo(MsgRecodes, MaxSection)]

Hosts == {ExampleCom, <<97>>, <<97, Dot, 98>>, <<>>}

\* What conn.Read may deliver for a query: the query itself, or the query
\* marked as a response and followed by one answer that points at offset 12.
Replies(query) ==
    {query,
     [i \in 1..Len(query) |-> IF i = 3 THEN 129 ELSE IF i = 4 THEN 128
                               ELSE IF i = 8 THEN 1 ELSE query[i]]
       \o <<192, 12, 0, 1, 0, 1, 0, 0, 1, 44, 0, 4, 93, 184, 216, 34>>}

\* The bytes that follow a compression pointer on the wire: an A record with
\* its 4 address bytes, a CNAME record with 2 opaque bytes, a record of
\* RDLength 0, and an A record cut before its address.
RecodeBodies ==
    {<<0, 1, 0, 1, 0, 0, 1, 44, 0, 4, 93, 184, 216, 34>>,
     <<0, 5, 0, 1, 1, 2, 3, 4, 0, 2, 192, 12>>,
     <<1, 2, 3, 4, 5, 6, 7, 8, 0, 0>>,
     <<0, 1, 0, 1, 0, 0, 1, 44, 0, 4, 93>>}

---------------------------------------------------------------------------
(* The state machine: a value is encoded, the bytes may be cut short, and  *)
(* a decoder reads them.                                                   *)

NotCalled == [fn |-> "none", out |-> "none", err |-> <<>>, val |-> <<>>, rest |-> <<>>]

Init ==
    /\ pc = "idle"
    /\ obj = [kind |-> "none", by |-> "none", val |-> <<>>]
    /\ enc = Bytes(<<>>)
    /\ wire = <<>>
    /\ cut = FALSE
    /\ dec = NotCalled

Encoded(kind, by, val, result, to) ==
    /\ obj' = [kind |-> kind, by |-> by, val |-> val]
    /\ enc' = result
    /\ wire' = result.bytes
    /\ cut' = FALSE
    /\ pc' = to
    /\ UNCHANGED dec

Decoded(fn, result) ==
    /\ dec' = [fn |-> fn, out |-> result.out, err |-> result.err,
               val |-> result.val, rest |-> result.rest]
    /\ pc' = "decoded"

HeaderToByteCall ==
    /\ pc = "idle"
    /\ \E h \in Headers : Encoded("header", "caller", h, HeaderToByte(h), "encoded")

QuestionToByteCall ==
    /\ pc = "idle"
    /\ \E q \in Questions : Encoded("question", "caller", q, QuestionToByte(q), "encoded")

ResourceRecodeToByteCall ==
    /\ pc = "idle"
    /\ \E r \in Recodes : Encoded("recode", "caller", r, ResourceRecodeToByte(r), "encoded")

MessageToByteCall ==
    /\ pc = "idle"
    /\ \E m \in Messages : Encoded("message", "caller", m, MessageToByte(m), "encoded")

\* LookUp up to conn.Write.
LookUpSend ==
    /\ pc = "idle"
    /\ \E host \in Hosts :
          Encoded("message", "LookUp", LookUpMessage(host),
                  MessageToByte(LookUpMessage(host)), "sent")

\* LookUp from conn.Read on.
LookUpReceive ==
    /\ pc = "sent"
    /\ enc.out = "ok"
    /\ \E reply \in Replies(enc.bytes) :
          /\ wire' = reply
          /\ Decoded("NewDNSMessage", NewDNSMessage(reply))
    /\ UNCHANGED <<obj, enc, cut>>

\* The buffer holds only a strict prefix of an encoded header, question or
\* resource record.
Truncate ==
    /\ pc = "encoded"
    /\ enc.out = "ok"
    /\ ~cut
    /\ obj.kind \in {"header", "question", "recode"}
    /\ \E n \in 0..(Len(wire) - 1) : wire' = SubSeq(wire, 1, n)
    /\ cut' = TRUE
    /\ UNCHANGED <<pc, obj, enc, dec>>

NewDNSHeaderCall ==
    /\ pc \in {"encoded", "received"}
    /\ enc.out = "ok"
    /\ obj.kind = "header"
    /\ Decoded("NewDNSHeader", NewDNSHeader(wire))
    /\ UNCHANGED <<obj, enc, wire, cut>>

NewDNSQuestionCall ==
    /\ pc = "encoded"
    /\ enc.out = "ok"
    /\ obj.kind = "question"
    /\ Decoded("NewDNSQuestion", NewDNSQuestion(wire))
    /\ UNCHANGED <<obj, enc, wire, cut>>

NewDNSResourceRecodeCall ==
    /\ pc \in {"encoded", "received"}
    /\ enc.out = "ok"
    /\ obj.kind = "recode"
    /\ Decoded("NewDNSResourceRecode", NewDNSResourceRecode(wire))
    /\ UNCHANGED <<obj, enc, wire, cut>>

NewDNSMessageCall ==
    /\ pc = "encoded"
    /\ enc.out = "ok"
    /\ obj.kind = "message"
    /\ Decoded("NewDNSMessage", NewDNSMessage(wire))
    /\ UNCHANGED <<obj, enc, wire, cut>>

Next ==
    \/ HeaderToByteCall
    \/ QuestionToByteCall
    \/ ResourceRecodeToByteCall
    \/ MessageToByteCall
    \/ LookUpSend
    \/ LookUpReceive
    \/ Truncate
    \/ NewDNSHeaderCall
    \/ NewDNSQuestionCall
    \/ NewDNSResourceRecodeCall
    \/ NewDNSMessageCall

Spec == Init /\ [][Next]_vars

---------------------------------------------------------------------------
(* Headers from the wire: every 16-bit flag word is decoded, the decoded   *)
(* header is encoded again, and the result is decoded once more.           *)

ReceiveHeader ==
    /\ pc = "idle"
    /\ \E v \in 0..65535 :
          /\ obj' = [kind |-> "header", by |-> "network", val |-> v]
          /\ wire' = <<0, 1, v \div 256, v % 256, 0, 1, 0, 0, 0, 0, 0, 0>>
    /\ pc' = "received"
    /\ UNCHANGED <<enc, cut, dec>>

ReencodeHeader ==
    /\ pc = "decoded"
    /\ obj.by = "network"
    /\ dec.fn = "NewDNSHeader"
    /\ dec.out = "ok"
    /\ Encoded("header", "NewDNSHeader", dec.val, HeaderToByte(dec.val), "encoded")

NextFlags == ReceiveHeader \/ NewDNSHeaderCall \/ ReencodeHeader

SpecFlags == Init /\ [][NextFlags]_vars

---------------------------------------------------------------------------
(* Resource records from the wire that start with a compression pointer:   *)
(* every 14-bit offset.                                                    *)

ReceiveRecode ==
    /\ pc = "idle"
    /\ \E o \in 0..16383, body \in RecodeBodies :
          /\ obj' = [kind |-> "recode", by |-> "network", val |-> [offset |-> o, body |-> body]]
          /\ wire' = <<192 + (o \div 256), o % 256>> \o body
    /\ pc' = "received"
    /\ UNCHANGED <<enc, cut, dec>>

NextPointer == ReceiveRecode \/ NewDNSResourceRecodeCall

SpecPointer == Init /\ [][NextPointer]_vars

---------------------------------------------------------------------------
(* Properties.                                                             *)

\* A name made of labels of 1 to 63 bytes joined by dots.
ValidName(name) ==
    \A i \in DOMAIN Split(name) : Len(Split(name)[i]) >= 1 /\ Len(Split(name)[i]) <= 63

\* A name with a label of more than 63 bytes.
HasLongLabel(name) == \E i \in DOMAIN Split(name) : Len(Split(name)[i]) > 63

\* The decoder was given all the bytes the encoder returned for a value the
\* caller supplied.
DecodedWhole(kind, fn) ==
    /\ pc = "decoded"
    /\ obj.kind = kind
    /\ obj.by = "caller"
    /\ dec.fn = fn
    /\ ~cut
    /\ wire = enc.bytes

\* C1: an A/IN record with RDLength 4, a dotted-quad RData and an inline
\* name of 1-63-byte labels is reproduced by NewDNSResourceRecode applied to
\* the bytes of ToByte: Name, RRType, Class, TTL and RData are equal.
RecodeRoundTrip ==
    (/\ DecodedWhole("recode", "NewDNSResourceRecode")
     /\ obj.val.RRType = DNSTypeA
     /\ obj.val.Class = DNSClassIn
     /\ obj.val.RDLength = 4
     /\ obj.val.NamePos = 0
     /\ ValidName(obj.val.Name)
     /\ ParseIPTo4(obj.val.RData) # <<>>)
    => (/\ dec.out = "ok"
        /\ dec.val.Name = obj.val.Name
        /\ dec.val.RRType = obj.val.RRType
        /\ dec.val.Class = obj.val.Class
        /\ dec.val.TTL = obj.val.TTL
        /\ dec.val.RData = obj.val.RData)

\* C2: a decoder given a strict prefix of a valid encoded header, question
\* or resource record ends by returning a truncation error: it returns no
\* value and does not panic.
TruncatedInputRejected ==
    (/\ pc = "decoded"
     /\ cut
     /\ obj.by = "caller"
     /\ dec.fn \in {"NewDNSHeader", "NewDNSQuestion", "NewDNSResourceRecode"})
    => dec.out = "error"

\* C3 as stated: unpacking a flag word, packing the result with ToBit and
\* unpacking again gives every sub-field, Z included, the value of the
\* first unpacking.
FlagsRoundTripAllFields ==
    (pc = "decoded" /\ obj.by = "NewDNSHeader")
    => (dec.out = "ok" /\ dec.val.Flags = obj.val.Flags)

\* C3 as amended: unpacking a flag word, packing the result with ToBit and
\* unpacking again gives QR, OpCode, AA, TC, RD, RA and RCode the value of
\* the first unpacking, and gives Z the value 0.
FlagsRoundTripExceptZ ==
    (pc = "decoded" /\ obj.by = "NewDNSHeader")
    => (/\ dec.out = "ok"
        /\ dec.val.Flags = [obj.val.Flags EXCEPT !.Z = 0]
        /\ dec.val.TxID = obj.val.TxID
        /\ dec.val.Questions = obj.val.Questions)

FlagsRoundTripWitness ==
    /\ pc = "decoded"
    /\ obj.by = "NewDNSHeader"
    /\ obj.val.Flags.Z = 5
    /\ obj.val.Flags.OpCode = 9
    /\ dec.out = "ok"
    /\ dec.val.Flags.OpCode = 9

\* C4: a question whose name is made of 1-63-byte labels is reproduced by
\* NewDNSQuestion applied to the bytes of ToByte, whatever its type and
\* class, and no byte is left unread.
QuestionRoundTrip ==
    (DecodedWhole("question", "NewDNSQuestion") /\ ValidName(obj.val.QuestionName))
    => (/\ enc.out = "ok"
        /\ dec.out = "ok"
        /\ dec.val.QuestionName = obj.val.QuestionName
        /\ dec.val.QuestionType = obj.val.QuestionType
        /\ dec.val.QuestionClass = obj.val.QuestionClass
        /\ dec.rest = <<>>)

QuestionRoundTripWitness ==
    /\ DecodedWhole("question", "NewDNSQuestion")
    /\ obj.val.QuestionName = ExampleCom
    /\ obj.val.QuestionType = 258
    /\ dec.out = "ok"
    /\ dec.val.QuestionName = ExampleCom

\* C5: ToByte of a resource record whose class is not IN returns
\* ErrClassNotSupport and no bytes, and ToByte of a message that holds such
\* a record fails (with that error as the cause when it gets to the
\* records) and returns no bytes.
UnsupportedClassRejected ==
    /\ (obj.kind = "recode" /\ obj.by = "caller" /\ obj.val.Class # DNSClassIn)
       => (enc.out = "error" /\ enc.err = ErrClassNotSupport /\ enc.bytes = <<>>)
    /\ (/\ obj.kind = "message"
        /\ \E i \in DOMAIN obj.val.ResourceRecodes :
              obj.val.ResourceRecodes[i].Class # DNSClassIn)
       => (/\ enc.out # "ok"
           /\ enc.bytes = <<>>
           /\ wire = <<>>
           /\ (obj.val.Header.Questions <= Len(obj.val.Questions)
               => (/\ enc.out = "error"
                   /\ enc.err = WithMessage(ErrClassNotSupport, "write resource error"))))

UnsupportedClassWitness ==
    /\ obj.kind = "message"
    /\ pc = "encoded"
    /\ obj.val.Header.Questions = 1
    /\ Len(obj.val.Questions) = 1
    /\ Len(obj.val.ResourceRecodes) = 2
    /\ obj.val.ResourceRecodes[1].Class = DNSClassIn
    /\ ParseIPTo4(obj.val.ResourceRecodes[1].RData) # <<>>
    /\ obj.val.ResourceRecodes[2].Class = 3
    /\ enc.out = "error"

\* C6: ToByte of a resource record of class IN whose RData is no dotted
\* quad fails and returns no bytes.
MalformedAddressRejected ==
    (/\ obj.kind = "recode"
     /\ obj.by = "caller"
     /\ obj.val.Class = DNSClassIn
     /\ ParseIPTo4(obj.val.RData) = <<>>)
    => (enc.out = "error" /\ enc.bytes = <<>>)

\* C7: a resource record on the wire that starts with a byte pair 11oooooo
\* oooooooo is decoded with NamePos = o and an empty Name, and RRType,
\* Class, TTL and RDLength are the big-endian values of the 10 bytes after
\* the pair; the call returns whenever those 10 bytes, and the 4 address
\* bytes of an A record of RDLength 4, are there.
PointerRecognized ==
    (pc = "decoded" /\ obj.kind = "recode" /\ obj.by = "network")
    => LET o == obj.val.offset
           b == obj.val.body
           isA == b[1] = 0 /\ b[2] = 1 /\ b[9] = 0 /\ b[10] = 4
       IN  /\ (Len(b) >= 10 /\ (isA => Len(b) >= 14)) => dec.out = "ok"
           /\ dec.out = "ok"
              => (/\ dec.val.NamePos = o
                  /\ dec.val.Name = <<>>
                  /\ dec.val.RRType = b[1] * 256 + b[2]
                  /\ dec.val.Class = b[3] * 256 + b[4]
                  /\ dec.val.TTL = [hi |-> b[5] * 256 + b[6], lo |-> b[7] * 256 + b[8]]
                  /\ dec.val.RDLength = b[9] * 256 + b[10]
                  /\ dec.rest = SubSeq(b, 11 + dec.val.RDLength, Len(b)))

PointerRecognizedWitness ==
    /\ pc = "decoded"
    /\ obj.kind = "recode"
    /\ obj.by = "network"
    /\ obj.val.offset = 16383
    /\ wire[1] = 255
    /\ dec.out = "ok"
    /\ dec.val.NamePos = 16383
    /\ dec.val.RRType = DNSTypeCName

\* C8: ToByte of a question, or of a resource record with NamePos = 0,
\* whose name has a label of more than 63 bytes returns an error.
LongLabelRejected ==
    (\/ (obj.kind = "question" /\ HasLongLabel(obj.val.QuestionName))
     \/ (/\ obj.kind = "recode"
         /\ obj.by = "caller"
         /\ obj.val.NamePos = 0
         /\ HasLongLabel(obj.val.Name)))
    => enc.out = "error"

\* C9: the message LookUp builds for "example.com" is encoded as the header
\* 00 01 01 00 00 01 00 00 00 00 00 00, the name 07 example 03 com 00, and
\* 00 01 00 01.
LookUpExampleBytes ==
    (/\ obj.kind = "message"
     /\ obj.by = "LookUp"
     /\ obj.val.Questions[1].QuestionName = ExampleCom)
    => (/\ enc.out = "ok"
        /\ enc.bytes = <<0, 1, 1, 0, 0, 1, 0, 0, 0, 0, 0, 0,
                         7, 101, 120, 97, 109, 112, 108, 101, 3, 99, 111, 109, 0,
                         0, 1, 0, 1>>)

LookUpExampleWitness ==
    /\ pc = "sent"
    /\ obj.by = "LookUp"
    /\ obj.val.Questions[1].QuestionName = ExampleCom
    /\ obj.val.Header.TxID = 1
    /\ obj.val.Header.Flags.RD = 1
    /\ Len(wire) = 29

\* C10: NewDNSMessage applied to all the bytes of ToByte of a message with
\* Header.Questions = 1, one question of 1-63-byte labels and no resource
\* record returns a message with that one question and no resource record.
MessageRoundTrip ==
    (/\ pc = "decoded"
     /\ obj.kind = "message"
     /\ dec.fn = "NewDNSMessage"
     /\ wire = enc.bytes
     /\ obj.val.Header.Questions = 1
     /\ Len(obj.val.Questions) = 1
     /\ ValidName(obj.val.Questions[1].QuestionName)
     /\ obj.val.ResourceRecodes = <<>>)
    => (/\ dec.out = "ok"
        /\ Len(dec.val.Questions) = 1
        /\ dec.val.Questions[1] = obj.val.Questions[1]
        /\ dec.val.ResourceRecodes = <<>>)

=============================================================================
